---- MODULE Spec2Model ----
(***************************************************************************)
(* Model of the plugin dispatch engine of libstoragemgmt-golang            *)
(* (src/plugin.go): PluginInit, noSupport and Plugin.Run.                  *)
(*                                                                         *)
(* The transport (readRequest, sendError, sendResponse, close), the        *)
(* handlers installed by buildTable and the backend callbacks are outside  *)
(* plugin.go.  Their results are inputs of the model, chosen from small    *)
(* sets, and every call Run makes on them is recorded, in order, in the    *)
(* history variable log.                                                   *)
(***************************************************************************)
EXTENDS Integers, Sequences, FiniteSets, TLC

VARIABLES
    pc,         \* position of the program: "start", "init_failed", "panicked", or a place in Run
    args,       \* cmdLineArgs handed to PluginInit
    plugin,     \* TRUE when PluginInit returned a non-nil *Plugin
    initErr,    \* the error PluginInit returned
    tp,         \* Plugin.tp
    cb,         \* Plugin.cb, the callback registry
    callTable,  \* Plugin.callTable
    request,    \* Run's local: request
    err,        \* Run's local: err
    response,   \* Run's local: response
    log         \* every transport call, handler call and handler return so far, in order

vars == <<pc, args, plugin, initErr, tp, cb, callTable, request, err, response, log>>

(***************************** bounds **************************************)
\* readRequest is called at most MaxReads times in one run of the model.
MaxReads == 3
\* cmdLineArgs has at most MaxArgs elements.
MaxArgs == 3

(***************************** errors **************************************)
\* Codes of errors.LsmError used by plugin.go, plus one domain-specific code.
LibBug == "LibBug"
NoSupport == "NoSupport"
TransPortComunication == "TransPortComunication"
InvalidArgument == "InvalidArgument"

\* A nil error.
NilErr == [kind |-> "nil", code |-> "", msg |-> <<>>]

\* &errors.LsmError{Code: code, Message: msg}
LsmError(code, msg) == [kind |-> "LsmError", code |-> code, msg |-> msg]

\* An error value whose dynamic type is not *errors.LsmError.
PlainError(kind, msg) == [kind |-> kind, code |-> "", msg |-> msg]

\* err.(*errors.LsmError): the ok of the type assertion.
IsLsmError(e) == e.kind = "LsmError"

(************************* strconv.ParseInt ********************************)
\* A Go string is a sequence of one-character strings.
Digits == {"0", "1", "2", "3", "4", "5", "6", "7", "8", "9"}

DigitVal(c) ==
    CASE c = "0" -> 0 [] c = "1" -> 1 [] c = "2" -> 2 [] c = "3" -> 3
      [] c = "4" -> 4 [] c = "5" -> 5 [] c = "6" -> 6 [] c = "7" -> 7
      [] c = "8" -> 8 [] c = "9" -> 9

\* The largest value of a 32-bit signed integer (bitSize 32).
MaxInt32 == 2147483647

\* 2^32 - 1, the largest value of bitSize 32 in strconv.ParseUint, is
\* 2 * MaxInt32 + 1: its quotient and remainder by 10, written so that no
\* number above MaxInt32 is formed.
MaxUint32Div10 == MaxInt32 \div 5
MaxUint32Mod10 == 2 * (MaxInt32 % 5) + 1

\* The loop of strconv.ParseUint(s, 10, 32) from character k on, n being the
\* value of the digits before it: the first character that is no decimal
\* digit ends it with a syntax error, the first digit that takes the value
\* above 2^32 - 1 ends it with a range error.  A value is "fits" with val when
\* it is at most 2^31 - 1, "cutoff" when it is exactly 2^31, "big" when it is
\* larger (and at most 2^32 - 1).
RECURSIVE ScanDigits(_, _, _)
ScanDigits(s, k, n) ==
    IF k > Len(s) THEN [err |-> "nil", class |-> n.class, val |-> n.val]
    ELSE IF s[k] \notin Digits THEN [err |-> "syntax", class |-> "fits", val |-> 0]
    ELSE LET d == DigitVal(s[k])
         IN  IF n.class # "fits"
                \/ n.val > MaxUint32Div10
                \/ (n.val = MaxUint32Div10 /\ d > MaxUint32Mod10)
             THEN [err |-> "range", class |-> "big", val |-> 0]
             ELSE IF n.val < (MaxInt32 \div 10)
                     \/ (n.val = (MaxInt32 \div 10) /\ d <= (MaxInt32 % 10))
             THEN ScanDigits(s, k + 1, [class |-> "fits", val |-> n.val * 10 + d])
             ELSE IF n.val = (MaxInt32 \div 10) /\ d = (MaxInt32 % 10) + 1
             THEN ScanDigits(s, k + 1, [class |-> "cutoff", val |-> 0])
             ELSE ScanDigits(s, k + 1, [class |-> "big", val |-> 0])

\* strconv.ParseUint(s, 10, 32): the empty string is a syntax error.
ParseUint(s) ==
    IF s = <<>> THEN [err |-> "syntax", class |-> "fits", val |-> 0]
    ELSE ScanDigits(s, 1, [class |-> "fits", val |-> 0])

\* strconv.ParseInt(s, 10, 32): an optional sign, then ParseUint; a
\* magnitude outside [-2^31, 2^31 - 1] is a range error, returned with the
\* nearest value of the range.
ParseInt(s) ==
    LET neg  == s # <<>> /\ s[1] = "-"
        body == IF s # <<>> /\ s[1] \in {"+", "-"} THEN Tail(s) ELSE s
        un   == ParseUint(body)
    IN  IF un.err = "syntax"
        THEN [err |-> "syntax", val |-> 0]
        ELSE IF un.err = "range" \/ un.class = "big" \/ (un.class = "cutoff" /\ ~neg)
        THEN [err |-> "range", val |-> IF neg THEN (0 - MaxInt32) - 1 ELSE MaxInt32]
        ELSE IF un.class = "cutoff"
        THEN [err |-> "nil", val |-> (0 - MaxInt32) - 1]
        ELSE [err |-> "nil", val |-> IF neg THEN 0 - un.val ELSE un.val]

\* os.NewFile(uintptr(fd), "client") returns nil for a negative descriptor.
NewFileIsNil(fd) == fd < 0

\* net.FileConn(f) on a non-nil file: the descriptor is a usable socket or
\* not (isSocket).
FileConnOk(fd, isSocket) == fd >= 0 /\ isSocket

(*************************** inputs ****************************************)
ProgName == <<"p">>

ArgStrings ==
    { <<>>, <<"3">>, <<"1", "2">>, <<"-", "1">>, <<"x">>, <<"3", "x">>,
      <<"+", "4">>,
      <<"2", "1", "4", "7", "4", "8", "3", "6", "4", "7">>,
      <<"2", "1", "4", "7", "4", "8", "3", "6", "4", "8">>,
      <<"-", "2", "1", "4", "7", "4", "8", "3", "6", "4", "8">>,
      <<"2", "1", "4", "7", "4", "8", "3", "6", "4", "8", "x">>,
      <<"4", "2", "9", "4", "9", "6", "7", "2", "9", "5">>,
      <<"4", "2", "9", "4", "9", "6", "7", "2", "9", "6", "x">> }

RECURSIVE ArgTails(_)
ArgTails(n) ==
    IF n = 0 THEN {<<>>}
    ELSE LET shorter == ArgTails(n - 1)
         IN  shorter \cup { Append(t, s) : t \in { u \in shorter : Len(u) = n - 1 },
                                           s \in ArgStrings }

\* The argument vectors: empty, or the program name and up to MaxArgs - 1 more.
ArgVectors == {<<>>} \cup { <<ProgName>> \o t : t \in ArgTails(MaxArgs - 1) }

\* Wire methods that have a slot in the callback registry.
ProtocolMethods == {"plugin_unregister", "pools"}
\* Method names a client can send.
Methods == ProtocolMethods \cup {"no_such_method"}

\* A callback registry: which slots are filled.
Registries == [ProtocolMethods -> BOOLEAN]

\* What a handler returns on success.
Responses == {"null", "result"}

\* Errors a handler (callback) can return.
HandlerErrors ==
    { LsmError(InvalidArgument, <<"invalid URI">>),
      LsmError(TransPortComunication, <<"backend link down">>),
      PlainError("error", <<"callback failed">>) }

\* Errors readRequest can return.
ReadErrors ==
    { LsmError(TransPortComunication, <<"EOF">>),
      LsmError(LibBug, <<"bad JSON">>),
      PlainError("error", <<"unexpected">>) }

NoRequest == [Method |-> "", Params |-> ""]
Requests == { [Method |-> m, Params |-> "{}"] : m \in Methods }

(************************** the log ****************************************)
Event(op, method, e, resp) == [op |-> op, method |-> method, err |-> e, resp |-> resp]

EvRead(req, e)   == Event("readRequest", req.Method, e, "")
EvHandler(m)     == Event("handler", m, NilErr, "")
EvHandlerReturn(m, e, r) == Event("handlerReturn", m, e, r)
EvSendError(e)   == Event("sendError", "", e, "")
EvSendResponse(r) == Event("sendResponse", "", NilErr, r)
EvClose          == Event("close", "", NilErr, "")

NumOps(l, op) == Cardinality({ i \in 1..Len(l) : l[i].op = op })

(************************** PluginInit *************************************)
\* fmt.Sprintf("%s", cmdLineArgs): "[a b c]".
RECURSIVE FormatArgs(_)
FormatArgs(a) ==
    IF a = <<>> THEN <<>>
    ELSE IF Len(a) = 1 THEN a[1]
    ELSE a[1] \o <<" ">> \o FormatArgs(Tail(a))

InvalidArgsError(cmdLineArgs) ==
    LsmError(LibBug, <<"Plugin called with invalid args: ", "[">>
                     \o FormatArgs(cmdLineArgs) \o <<"]", "\n">>)

\* Mutant of ArgCountOk: the test written as len(cmdLineArgs) >= 2.
ArgCountOk_AtLeast(cmdLineArgs) == Len(cmdLineArgs) >= 2

\* len(cmdLineArgs) == 2
ArgCountOk(cmdLineArgs) == Len(cmdLineArgs) = 2

\* The dispatch tables buildTable can return for a registry: a filled slot
\* gets a handler; an empty slot gets no entry or a nil entry; a name that
\* is no protocol method gets no entry.
buildTable(callbacks) ==
    { t \in [Methods -> {"handler", "nil", "absent"}] :
        \A m \in Methods :
            IF m \in ProtocolMethods
            THEN IF callbacks[m] THEN t[m] = "handler" ELSE t[m] \in {"nil", "absent"}
            ELSE t[m] = "absent" }

NoTable == [m \in Methods |-> "absent"]
NoRegistry == [m \in ProtocolMethods |-> FALSE]
NoTransport == [uds |-> -1, debug |-> FALSE]

InitFails(e) ==
    /\ pc' = "init_failed"
    /\ plugin' = FALSE
    /\ initErr' = e
    /\ UNCHANGED <<tp, cb, callTable>>

\* net.FileConn on the nil file: the failed dup is wrapped with f.Name(), a
\* nil-pointer dereference; PluginInit panics and returns nothing.
InitPanics ==
    /\ pc' = "panicked"
    /\ plugin' = FALSE
    /\ initErr' = NilErr
    /\ UNCHANGED <<tp, cb, callTable>>

PluginInit(callbacks, cmdLineArgs, isSocket, table) ==
    /\ pc = "start"
    /\ args' = cmdLineArgs
    /\ IF ArgCountOk(cmdLineArgs)
       THEN LET r == ParseInt(cmdLineArgs[2])
            IN  IF r.err # "nil"
                THEN InitFails(PlainError("strconv.NumError", <<r.err>>))
                ELSE IF NewFileIsNil(r.val)
                THEN InitPanics
                ELSE IF ~FileConnOk(r.val, isSocket)
                THEN InitFails(PlainError("net.OpError", <<"file conn">>))
                ELSE /\ pc' = "read"
                     /\ plugin' = TRUE
                     /\ initErr' = NilErr
                     /\ tp' = [uds |-> r.val, debug |-> FALSE]
                     /\ cb' = callbacks
                     /\ callTable' = table
       ELSE InitFails(InvalidArgsError(cmdLineArgs))
    /\ UNCHANGED <<request, err, response, log>>

(***************************** noSupport ***********************************)
\* fmt.Sprintf("method %s not supported", method)
NoSupportMessage(method) == <<"method ", method, " not supported">>

\* Mutant of noSupport: the message leaves the method name out.
noSupport_NoName(method) == EvSendError(LsmError(NoSupport, <<"method not supported">>))

noSupport(method) == EvSendError(LsmError(NoSupport, NoSupportMessage(method)))

(******************************* Run ***************************************)
\* Mutant of ReadErrorIsReplied: every structured read error is sent back.
ReadErrorIsReplied_AnyLsm(e) == IsLsmError(e)

\* Mutant of ReadErrorIsReplied: every read error ends the loop.
ReadErrorIsReplied_Never(e) == FALSE

\* Mutant of ReadErrorIsReplied: the type assertion's ok is not tested.
ReadErrorIsReplied_NoTypeCheck(e) == e.code # TransPortComunication

\* lsmError.Code != errors.TransPortComunication
ReadErrorIsReplied(e) == IsLsmError(e) /\ e.code # TransPortComunication

\* Mutant of HasHandler: the f != nil test is missing.
HasHandler_NoNilCheck(table, method) == table[method] # "absent"

\* f, ok := p.callTable[method]; ok == true && f != nil
HasHandler(table, method) == table[method] = "handler"

\* Mutant of IsUnregister: the wrong method name is compared.
IsUnregister_WrongName(method) == method = "plugin_register"

\* request.Method == "plugin_unregister"
IsUnregister(method) == method = "plugin_unregister"

\* request, err := p.tp.readRequest(), and the whole of the err != nil branch.
RunReadError(e) ==
    /\ pc = "read"
    /\ NumOps(log, "readRequest") < MaxReads
    /\ request' = NoRequest
    /\ err' = e
    /\ response' = "nil"
    /\ IF ReadErrorIsReplied(e)
       THEN /\ log' = log \o <<EvRead(NoRequest, e), EvSendError(e)>>
            /\ pc' = "read"
       ELSE /\ log' = Append(log, EvRead(NoRequest, e))
            /\ pc' = "returned"
    /\ UNCHANGED <<args, plugin, initErr, tp, cb, callTable>>

\* request, err := p.tp.readRequest() with err == nil; var response interface{}
RunReadRequest(req) ==
    /\ pc = "read"
    /\ NumOps(log, "readRequest") < MaxReads
    /\ request' = req
    /\ err' = NilErr
    /\ response' = "nil"
    /\ log' = Append(log, EvRead(req, NilErr))
    /\ pc' = "lookup"
    /\ UNCHANGED <<args, plugin, initErr, tp, cb, callTable>>

\* Mutant of RunLookup: the handler is started and the loop does not wait for it.
RunLookup_Async ==
    /\ pc = "lookup"
    /\ IF HasHandler(callTable, request.Method)
       THEN /\ log' = Append(log, EvHandler(request.Method))
            /\ pc' = "read"
       ELSE /\ log' = Append(log, noSupport(request.Method))
            /\ pc' = "read"
    /\ UNCHANGED <<args, plugin, initErr, tp, cb, callTable, request, err, response>>

\* Mutant of RunLookup: a failed lookup leaves a nil entry in the table.
RunLookup_CachesMiss ==
    /\ pc = "lookup"
    /\ IF HasHandler(callTable, request.Method)
       THEN /\ log' = Append(log, EvHandler(request.Method))
            /\ pc' = "handler"
            /\ UNCHANGED callTable
       ELSE /\ log' = Append(log, noSupport(request.Method))
            /\ pc' = "read"
            /\ callTable' = [callTable EXCEPT ![request.Method] = "nil"]
    /\ UNCHANGED <<args, plugin, initErr, tp, cb, request, err, response>>

\* The table lookup; a handler is called, or noSupport replies.
RunLookup ==
    /\ pc = "lookup"
    /\ IF HasHandler(callTable, request.Method)
       THEN /\ log' = Append(log, EvHandler(request.Method))
            /\ pc' = "handler"
       ELSE /\ log' = Append(log, noSupport(request.Method))
            /\ pc' = "read"
    /\ UNCHANGED <<args, plugin, initErr, tp, cb, callTable, request, err, response>>

\* response, err = f(p, request.Params): the handler returns.
RunHandlerReturns(resp, e) ==
    /\ pc = "handler"
    /\ response' = resp
    /\ err' = e
    /\ log' = Append(log, EvHandlerReturn(request.Method, e, resp))
    /\ pc' = "reply"
    /\ UNCHANGED <<args, plugin, initErr, tp, cb, callTable, request>>

\* Mutant of RunReply: a handler's error is wrapped in a LibBug error before it is sent.
RunReply_Wrapped ==
    /\ pc = "reply"
    /\ log' = Append(log, IF err # NilErr THEN EvSendError(LsmError(LibBug, err.msg))
                                           ELSE EvSendResponse(response))
    /\ pc' = IF IsUnregister(request.Method) THEN "close" ELSE "read"
    /\ UNCHANGED <<args, plugin, initErr, tp, cb, callTable, request, err, response>>

\* Mutant of RunReply: the else is missing, so a response follows the error.
RunReply_NoElse ==
    /\ pc = "reply"
    /\ log' = log \o (IF err # NilErr THEN <<EvSendError(err)>> ELSE <<>>)
                   \o <<EvSendResponse(response)>>
    /\ pc' = IF IsUnregister(request.Method) THEN "close" ELSE "read"
    /\ UNCHANGED <<args, plugin, initErr, tp, cb, callTable, request, err, response>>

\* if err != nil { sendError(err) } else { sendResponse(response) }
RunReply ==
    /\ pc = "reply"
    /\ log' = Append(log, IF err # NilErr THEN EvSendError(err)
                                           ELSE EvSendResponse(response))
    /\ pc' = IF IsUnregister(request.Method) THEN "close" ELSE "read"
    /\ UNCHANGED <<args, plugin, initErr, tp, cb, callTable, request, err, response>>

\* Mutant of RunClose: Run returns without closing the transport.
RunClose_NoClose ==
    /\ pc = "close"
    /\ pc' = "returned"
    /\ UNCHANGED <<args, plugin, initErr, tp, cb, callTable, request, err, response, log>>

\* Mutant of RunClose: the return after close is missing.
RunClose_NoReturn ==
    /\ pc = "close"
    /\ log' = Append(log, EvClose)
    /\ pc' = "read"
    /\ UNCHANGED <<args, plugin, initErr, tp, cb, callTable, request, err, response>>

\* p.tp.close(); return
RunClose ==
    /\ pc = "close"
    /\ log' = Append(log, EvClose)
    /\ pc' = "returned"
    /\ UNCHANGED <<args, plugin, initErr, tp, cb, callTable, request, err, response>>

(************************** specification **********************************)
Init ==
    /\ pc = "start"
    /\ args = <<>>
    /\ plugin = FALSE
    /\ initErr = NilErr
    /\ tp = NoTransport
    /\ cb = NoRegistry
    /\ callTable = NoTable
    /\ request = NoRequest
    /\ err = NilErr
    /\ response = "nil"
    /\ log = <<>>

Next ==
    \/ /\ pc = "start"
       /\ \E callbacks \in Registries, cmdLineArgs \in ArgVectors, isSocket \in BOOLEAN :
            \E table \in buildTable(callbacks) :
               PluginInit(callbacks, cmdLineArgs, isSocket, table)
    \/ \E e \in ReadErrors : RunReadError(e)
    \/ \E req \in Requests : RunReadRequest(req)
    \/ RunLookup
    \/ \E resp \in Responses : RunHandlerReturns(resp, NilErr)
    \/ \E e \in HandlerErrors : RunHandlerReturns("nil", e)
    \/ RunReply
    \/ RunClose

Spec == Init /\ [][Next]_vars

(***************************** claims **************************************)
Idx == 1..Len(log)

\* log[i] is a readRequest call that returned a request.
IsRequestAt(i) == log[i].op = "readRequest" /\ log[i].err = NilErr

\* ev is a reply: sendResponse or sendError.
IsSend(ev) == ev.op \in {"sendError", "sendResponse"}

\* The reply Run owes for a handler's return event.
ReplyFor(ret) == IF ret.err # NilErr THEN EvSendError(ret.err) ELSE EvSendResponse(ret.resp)

\* e is a structured error with the given code.
HasCode(e, code) == e.kind = "LsmError" /\ e.code = code

\* C1: a received plugin_unregister request that has a non-nil handler is
\* answered first (sendResponse when the handler succeeded, sendError with the
\* handler's error when it failed), then the transport is closed exactly once,
\* then Run returns, and no request is read afterwards; the same whether the
\* handler succeeded or failed.
C1_UnregisterRepliesThenClosesOnce ==
    \A i \in Idx :
        (IsRequestAt(i) /\ log[i].method = "plugin_unregister"
            /\ callTable["plugin_unregister"] = "handler")
        => /\ Len(log) <= i + 4
           /\ (i + 1 <= Len(log)) => log[i + 1] = EvHandler("plugin_unregister")
           /\ (i + 2 <= Len(log)) => log[i + 2].op = "handlerReturn"
           /\ (i + 3 <= Len(log)) => log[i + 3] = ReplyFor(log[i + 2])
           /\ (i + 4 <= Len(log)) => log[i + 4] = EvClose
           /\ NumOps(log, "close") = (IF Len(log) = i + 4 THEN 1 ELSE 0)
           /\ pc = CASE Len(log) = i     -> "lookup"
                     [] Len(log) = i + 1 -> "handler"
                     [] Len(log) = i + 2 -> "reply"
                     [] Len(log) = i + 3 -> "close"
                     [] OTHER            -> "returned"

\* C1 witness: Run has returned after a plugin_unregister whose handler failed;
\* the error was sent and the transport then closed.
C1_Witness ==
    /\ pc = "returned"
    /\ Len(log) >= 5
    /\ log[Len(log)] = EvClose
    /\ log[Len(log) - 1].op = "sendError"
    /\ log[Len(log) - 2].op = "handlerReturn"
    /\ log[Len(log) - 2].method = "plugin_unregister"

\* C2 as stated: after any received plugin_unregister request, whatever the
\* reply, no further request is read and Run goes on to close and return.
C2_Original ==
    \A i \in Idx :
        (IsRequestAt(i) /\ log[i].method = "plugin_unregister")
        => /\ pc # "read"
           /\ \A j \in Idx : j > i => log[j].op # "readRequest"

\* C2 amended: after a received plugin_unregister request that has a non-nil
\* handler, whatever the handler's reply, the transport is closed and Run
\* returns without reading another request; when callTable has no entry or a
\* nil entry for plugin_unregister, the not-supported error is sent, the
\* transport is not closed and Run reads the next request.
C2_Amended ==
    \A i \in Idx :
        (IsRequestAt(i) /\ log[i].method = "plugin_unregister")
        => IF callTable["plugin_unregister"] = "handler"
           THEN /\ \A j \in Idx : j > i => log[j].op # "readRequest"
                /\ pc \in {"lookup", "handler", "reply", "close", "returned"}
                /\ (i + 3 <= Len(log)) => (IsSend(log[i + 3]) /\ pc \in {"close", "returned"})
                /\ (pc = "returned") => log[Len(log)] = EvClose
           ELSE /\ NumOps(log, "close") = 0
                /\ \A k \in Idx : log[k].op = "handler" => log[k].method # "plugin_unregister"
                /\ (i + 1 <= Len(log)) => /\ log[i + 1].op = "sendError"
                                          /\ HasCode(log[i + 1].err, NoSupport)
                /\ (i + 2 <= Len(log)) => log[i + 2].op = "readRequest"
                /\ (Len(log) = i) => pc = "lookup"
                /\ (Len(log) = i + 1) => pc = "read"

\* C2 witness: plugin_unregister had a nil entry, got the not-supported error,
\* and Run read another request afterwards.
C2_Witness ==
    /\ callTable["plugin_unregister"] = "nil"
    /\ \E i \in Idx :
        /\ IsRequestAt(i) /\ log[i].method = "plugin_unregister"
        /\ i + 2 <= Len(log)
        /\ HasCode(log[i + 1].err, NoSupport)
        /\ log[i + 2].op = "readRequest"

\* C3: a received request whose method has no entry in callTable gets exactly
\* one reply, a NoSupport error whose message contains the method name; no
\* result is sent, the transport is not closed, and Run reads again.
C3_AbsentMethodGetsNoSupport ==
    \A i \in Idx :
        (IsRequestAt(i) /\ callTable[log[i].method] = "absent")
        => /\ (Len(log) = i) => pc = "lookup"
           /\ (i + 1 <= Len(log)) =>
                 /\ log[i + 1].op = "sendError"
                 /\ HasCode(log[i + 1].err, NoSupport)
                 /\ \E k \in 1..Len(log[i + 1].err.msg) :
                        log[i + 1].err.msg[k] = log[i].method
           /\ (Len(log) = i + 1) => pc = "read"
           /\ (i + 2 <= Len(log)) => log[i + 2].op = "readRequest"

\* C3 witness: an absent method was answered with NoSupport and Run read again.
C3_Witness ==
    \E i \in Idx :
        /\ IsRequestAt(i) /\ callTable[log[i].method] = "absent"
        /\ log[i].method = "no_such_method"
        /\ i + 2 <= Len(log)
        /\ log[i + 2].op = "readRequest"

\* C4 as stated: whenever a handler returns an error, for every method that
\* has a handler, that error is sent unchanged, the transport is not closed
\* and Run reads again.
C4_Original ==
    \A i \in Idx :
        (log[i].op = "handlerReturn" /\ log[i].err # NilErr)
        => /\ (i + 1 <= Len(log)) => log[i + 1] = EvSendError(log[i].err)
           /\ (Len(log) = i + 1) => pc = "read"
           /\ (i + 2 <= Len(log)) => log[i + 2].op = "readRequest"

\* C4 amended: whenever a handler returns an error, that error is sent
\* unchanged; for every method other than plugin_unregister the transport is
\* not closed and Run reads again; for plugin_unregister the transport is
\* then closed and Run returns.
C4_Amended ==
    \A i \in Idx :
        (log[i].op = "handlerReturn" /\ log[i].err # NilErr)
        => /\ (Len(log) = i) => pc = "reply"
           /\ (i + 1 <= Len(log)) => log[i + 1] = EvSendError(log[i].err)
           /\ IF log[i].method = "plugin_unregister"
              THEN /\ (Len(log) = i + 1) => pc = "close"
                   /\ (i + 2 <= Len(log)) => (log[i + 2] = EvClose /\ pc = "returned")
              ELSE /\ (Len(log) = i + 1) => pc = "read"
                   /\ (i + 2 <= Len(log)) => log[i + 2].op = "readRequest"

\* C4 witness: the pools handler failed, its error was sent, and Run read again.
C4_Witness ==
    \E i \in Idx :
        /\ log[i].op = "handlerReturn" /\ log[i].err # NilErr
        /\ log[i].method = "pools"
        /\ i + 2 <= Len(log)
        /\ log[i + 1] = EvSendError(log[i].err)
        /\ log[i + 2].op = "readRequest"

\* C5: when readRequest returns an LsmError whose code is
\* TransPortComunication, Run returns at once: nothing is sent and nothing is
\* read after that call.
C5_TransportErrorReturnsSilently ==
    \A i \in Idx :
        (log[i].op = "readRequest" /\ HasCode(log[i].err, TransPortComunication))
        => /\ i = Len(log)
           /\ pc = "returned"

\* C5 witness: after one served request, readRequest failed with
\* TransPortComunication and Run returned.
C5_Witness ==
    /\ pc = "returned"
    /\ Len(log) >= 3
    /\ log[Len(log)].op = "readRequest"
    /\ HasCode(log[Len(log)].err, TransPortComunication)
    /\ IsSend(log[Len(log) - 1])

\* C6: requests are processed one at a time in receipt order: between a
\* received request and the next readRequest call a reply has been sent; a
\* handler is called only for the request just read, after every earlier
\* request has had its reply; at most one handler call is in progress.
C6_OneAtATime ==
    /\ \A i \in Idx, j \in Idx :
          (i < j /\ IsRequestAt(i) /\ log[j].op = "readRequest")
          => \E k \in (i + 1)..(j - 1) : IsSend(log[k])
    /\ \A k \in Idx :
          log[k].op = "handler"
          => /\ k > 1
             /\ IsRequestAt(k - 1)
             /\ log[k - 1].method = log[k].method
             /\ \A i \in 1..(k - 2) :
                   IsRequestAt(i) => \E r \in (i + 1)..(k - 1) : IsSend(log[r])
    /\ NumOps(log, "handler") - NumOps(log, "handlerReturn") = (IF pc = "handler" THEN 1 ELSE 0)

\* C6 witness: two requests were dispatched to handlers, one after the other.
C6_Witness ==
    \E i \in Idx, j \in Idx :
        /\ i < j
        /\ log[i].op = "handler" /\ log[j].op = "handler"
        /\ log[i].method = "pools" /\ log[j].method = "plugin_unregister"
        /\ pc = "handler"

\* C7: PluginInit with an argument vector whose length is not 2 returns a nil
\* Plugin and an LsmError with code LibBug; no transport and no dispatch table
\* exist and Run is never entered.
C7_BadArgCountIsLibBug ==
    (pc # "start" /\ Len(args) # 2)
    => /\ pc = "init_failed"
       /\ plugin = FALSE
       /\ HasCode(initErr, LibBug)
       /\ tp = NoTransport
       /\ callTable = NoTable
       /\ log = <<>>

\* C7 witness: PluginInit was called with two startup arguments and failed.
C7_Witness ==
    /\ pc = "init_failed"
    /\ Len(args) = 3
    /\ ParseInt(args[2]).err = "nil"

\* C8 as stated: PluginInit with exactly one descriptor argument that does not
\* parse as a base-10 integer, or that cannot be wrapped into a connection,
\* fails with an error of kind LibBug and returns no Plugin.
C8_Claim ==
    (pc \in {"init_failed", "panicked"} /\ Len(args) = 2)
    => /\ pc = "init_failed"
       /\ plugin = FALSE
       /\ HasCode(initErr, LibBug)

\* C9 as stated: no sendError ever carries an error with code
\* TransPortComunication, wherever the error came from.
C9_Original ==
    \A i \in Idx :
        log[i].op = "sendError" => ~HasCode(log[i].err, TransPortComunication)

\* C9 amended: an error with code TransPortComunication returned by
\* readRequest is never sent as a reply and ends the session; the only
\* sendError that carries that code forwards, unchanged, the error a handler
\* returned, and the session then goes on as after any other handler error:
\* for every method other than plugin_unregister the transport is not closed
\* and Run reads again; for plugin_unregister the transport is closed and Run
\* returns.
C9_Amended ==
    /\ \A i \in Idx :
          (log[i].op = "readRequest" /\ HasCode(log[i].err, TransPortComunication))
          => (i = Len(log) /\ pc = "returned")
    /\ \A i \in Idx :
          (log[i].op = "sendError" /\ HasCode(log[i].err, TransPortComunication))
          => /\ i > 1
             /\ log[i - 1].op = "handlerReturn"
             /\ log[i - 1].err = log[i].err
             /\ IF log[i - 1].method = "plugin_unregister"
                THEN /\ (Len(log) = i) => pc = "close"
                     /\ (i + 1 <= Len(log)) => (log[i + 1] = EvClose /\ pc = "returned")
                     /\ i + 1 >= Len(log)
                ELSE /\ (Len(log) = i) => pc = "read"
                     /\ (i + 1 <= Len(log)) => log[i + 1].op = "readRequest"
                     /\ \A k \in 1..i : log[k].op # "close"
    /\ \A i \in Idx :
          (log[i].op = "handlerReturn" /\ HasCode(log[i].err, TransPortComunication))
          => /\ (Len(log) = i) => pc = "reply"
             /\ (i + 1 <= Len(log)) => log[i + 1] = EvSendError(log[i].err)

\* C9 witness: the pools handler's TransPortComunication error was forwarded,
\* Run read again, and that readRequest failed with the same code and ended
\* the session unanswered.
C9_Witness ==
    /\ pc = "returned"
    /\ HasCode(log[Len(log)].err, TransPortComunication)
    /\ log[Len(log)].op = "readRequest"
    /\ \E i \in Idx :
          /\ i > 1 /\ i + 1 <= Len(log)
          /\ log[i].op = "sendError" /\ HasCode(log[i].err, TransPortComunication)
          /\ log[i - 1].op = "handlerReturn" /\ log[i - 1].method = "pools"
          /\ log[i + 1].op = "readRequest"

\* C10: when readRequest returns an LsmError whose code is not
\* TransPortComunication, Run sends that same error once, calls no handler,
\* does not close the transport, and reads again.
C10_OtherReadErrorIsSentBack ==
    \A i \in Idx :
        (log[i].op = "readRequest" /\ log[i].err.kind = "LsmError"
            /\ log[i].err.code # TransPortComunication)
        => /\ i + 1 <= Len(log)
           /\ log[i + 1] = EvSendError(log[i].err)
           /\ (Len(log) = i + 1) => pc = "read"
           /\ (i + 2 <= Len(log)) => log[i + 2].op = "readRequest"

\* C10 witness: a LibBug read error was sent back and Run read again.
C10_Witness ==
    \E i \in Idx :
        /\ log[i].op = "readRequest" /\ HasCode(log[i].err, LibBug)
        /\ i + 2 <= Len(log)
        /\ log[i + 2].op = "readRequest"

\* log[i] is a readRequest call that failed with an error that is no LsmError.
IsPlainReadErrorAt(i) ==
    log[i].op = "readRequest" /\ log[i].err # NilErr /\ log[i].err.kind # "LsmError"

\* C11: when readRequest returns an error that is not a structured LsmError,
\* Run returns: nothing is sent and nothing is read after that call.
C11_PlainReadErrorIsFatal ==
    \A i \in Idx :
        IsPlainReadErrorAt(i)
        => /\ i = Len(log)
           /\ pc = "returned"

\* C11 witness: a structured read error was sent back, then readRequest failed
\* with a non-structured error and Run returned without a reply.
C11_Witness ==
    /\ pc = "returned"
    /\ Len(log) >= 3
    /\ IsPlainReadErrorAt(Len(log))
    /\ log[Len(log) - 1].op = "sendError"
    /\ log[Len(log) - 2].op = "readRequest"

\* C12 as stated: Run returns only after the plugin_unregister handshake or
\* after a read error that is a transport communication failure.
C12_Original ==
    (pc = "returned")
    => \/ log[Len(log)] = EvClose
       \/ /\ log[Len(log)].op = "readRequest"
          /\ HasCode(log[Len(log)].err, TransPortComunication)

\* C12 amended: Run returns only after the reply to a plugin_unregister
\* request dispatched through a handler, after a read error with code
\* TransPortComunication, or after a read error that is no structured
\* LsmError; it never returns after any other received request, whatever the
\* handler's outcome or when the method is unsupported, nor after a
\* structured read error with another code.
C12_Amended ==
    /\ (pc = "returned")
       => /\ Len(log) >= 1
          /\ \/ /\ log[Len(log)] = EvClose
                /\ Len(log) >= 5
                /\ log[Len(log) - 2].op = "handlerReturn"
                /\ log[Len(log) - 2].method = "plugin_unregister"
             \/ /\ log[Len(log)].op = "readRequest"
                /\ HasCode(log[Len(log)].err, TransPortComunication)
             \/ IsPlainReadErrorAt(Len(log))
    /\ (Len(log) >= 1 /\ IsSend(log[Len(log)]))
       => IF Len(log) >= 2 /\ log[Len(log) - 1].op = "handlerReturn"
             /\ log[Len(log) - 1].method = "plugin_unregister"
          THEN pc = "close"
          ELSE pc = "read"

\* C12 witness: a pools request was served and Run went on; it then returned
\* on a non-structured read error.
C12_Witness ==
    /\ pc = "returned"
    /\ Len(log) >= 5
    /\ IsPlainReadErrorAt(Len(log))
    /\ log[Len(log) - 1].op = "sendResponse"
    /\ log[Len(log) - 2].method = "pools"

\* The index of the first readRequest call after log[i], or Len(log) + 1.
NextReadAfter(i) ==
    LET later == { j \in Idx : j > i /\ log[j].op = "readRequest" }
    IN  IF later = {} THEN Len(log) + 1
        ELSE CHOOSE j \in later : \A k \in later : j <= k

\* The indexes of the events of the given ops between log[i] and the next read.
OpsOfRequest(i, ops) == { k \in (i + 1)..(NextReadAfter(i) - 1) : log[k].op \in ops }

\* C13: every received request gets exactly one reply before the next
\* readRequest call or Run's return, never both a result and an error and
\* never none; sendResponse is called only when the handler returned no
\* error; a handler is called at most once per request.
C13_ExactlyOneReply ==
    /\ \A i \in Idx :
          IsRequestAt(i)
          => /\ Cardinality(OpsOfRequest(i, {"sendError", "sendResponse"})) <= 1
             /\ Cardinality(OpsOfRequest(i, {"handler"})) <= 1
             /\ (NextReadAfter(i) <= Len(log) \/ pc \in {"read", "close", "returned"})
                => Cardinality(OpsOfRequest(i, {"sendError", "sendResponse"})) = 1
    /\ \A k \in Idx :
          log[k].op = "sendResponse"
          => /\ k > 1
             /\ log[k - 1].op = "handlerReturn"
             /\ log[k - 1].err = NilErr
             /\ log[k].resp = log[k - 1].resp

\* C13 witness: one request was answered with a handler's error, the next
\* with a handler's result.
C13_Witness ==
    \E i \in Idx, j \in Idx :
        /\ i < j
        /\ IsRequestAt(i) /\ IsRequestAt(j)
        /\ OpsOfRequest(i, {"sendError"}) # {}
        /\ OpsOfRequest(i, {"handler"}) # {}
        /\ OpsOfRequest(j, {"sendResponse"}) # {}
        /\ pc = "read"

\* C14 as stated: whenever Run has returned, the transport's close was called
\* exactly once before the return.
C14_Original == (pc = "returned") => NumOps(log, "close") = 1

\* C14 amended: when Run returns through the plugin_unregister handshake the
\* transport's close was called exactly once, as the last transport call
\* before the return; when Run returns on a read error (transport
\* communication failure or non-structured error) close was never called.
C14_Amended ==
    (pc = "returned")
    => IF \E i \in Idx : log[i].op = "handlerReturn" /\ log[i].method = "plugin_unregister"
       THEN /\ NumOps(log, "close") = 1
            /\ log[Len(log)] = EvClose
       ELSE /\ NumOps(log, "close") = 0
            /\ log[Len(log)].op = "readRequest"
            /\ log[Len(log)].err # NilErr

\* C14 witness: Run returned on a transport communication failure with the
\* transport never closed.
C14_Witness ==
    /\ pc = "returned"
    /\ NumOps(log, "close") = 0
    /\ HasCode(log[Len(log)].err, TransPortComunication)
    /\ NumOps(log, "readRequest") = 2
    /\ NumOps(log, "handler") = 1

\* C15: close is called at most once, only right after the reply to a
\* plugin_unregister request that was dispatched through a handler, and after
\* close no transport operation is called again.
C15_CloseOnlyAfterUnregisterReply ==
    /\ NumOps(log, "close") <= 1
    /\ \A i \in Idx :
          log[i].op = "close"
          => /\ i = Len(log)
             /\ pc = "returned"
             /\ i >= 5
             /\ IsSend(log[i - 1])
             /\ log[i - 2].op = "handlerReturn"
             /\ log[i - 2].method = "plugin_unregister"
             /\ log[i - 3] = EvHandler("plugin_unregister")
             /\ IsRequestAt(i - 4)
             /\ log[i - 4].method = "plugin_unregister"
             /\ callTable["plugin_unregister"] = "handler"

\* C15 witness: after an unsupported request, plugin_unregister was served
\* with a result and the transport closed.
C15_Witness ==
    /\ pc = "returned"
    /\ Len(log) = 7
    /\ log[7] = EvClose
    /\ log[6].op = "sendResponse"
    /\ HasCode(log[2].err, NoSupport)

\* C16: a callTable entry that is present but nil is treated like an absent
\* one: no handler is called, a NoSupport error naming the method is sent and
\* the loop continues; for plugin_unregister too, where the transport is not
\* closed and Run keeps reading.
C16_NilEntryIsNoSupport ==
    \A i \in Idx :
        (IsRequestAt(i) /\ callTable[log[i].method] = "nil")
        => /\ (Len(log) = i) => pc = "lookup"
           /\ \A k \in Idx : log[k].op = "handler" => log[k].method # log[i].method
           /\ (i + 1 <= Len(log)) =>
                 /\ log[i + 1].op = "sendError"
                 /\ HasCode(log[i + 1].err, NoSupport)
                 /\ \E k \in 1..Len(log[i + 1].err.msg) :
                        log[i + 1].err.msg[k] = log[i].method
           /\ (Len(log) = i + 1) => pc = "read"
           /\ (i + 2 <= Len(log)) => log[i + 2].op = "readRequest"
           /\ (log[i].method = "plugin_unregister") => NumOps(log, "close") = 0

\* C16 witness: pools and plugin_unregister both had nil entries; each got
\* the NoSupport error and Run is about to read again.
C16_Witness ==
    /\ callTable["pools"] = "nil"
    /\ callTable["plugin_unregister"] = "nil"
    /\ Len(log) = 4
    /\ log[1].method = "pools"
    /\ log[3].method = "plugin_unregister"
    /\ HasCode(log[4].err, NoSupport)
    /\ pc = "read"

\* Two requests for the same method were resolved the same way.
SameOutcome(i, j) ==
    (i + 1 <= Len(log) /\ j + 1 <= Len(log))
    => (log[i + 1].op = "handler") = (log[j + 1].op = "handler")

\* Requests for the same method were all resolved the same way.
SameMethodSameOutcome ==
    \A i \in Idx, j \in Idx :
        (IsRequestAt(i) /\ IsRequestAt(j) /\ log[i].method = log[j].method)
        => SameOutcome(i, j)

\* C17: callTable and cb are fixed for the session: they are set only by a
\* successful PluginInit, no step of Run changes them, and so the same method
\* name resolves to the same supported or unsupported outcome for every
\* request of a session.
C17_TableIsFixed ==
    [][ /\ (pc # "start") => (callTable' = callTable /\ cb' = cb)
        /\ (pc = "start" /\ pc' \in {"init_failed", "panicked"})
           => (callTable' = NoTable /\ cb' = NoRegistry)
        /\ SameMethodSameOutcome' ]_vars

\* C17 witness: two pools requests of one session, both dispatched to the
\* handler built at PluginInit.
C17_Witness ==
    /\ plugin
    /\ cb["pools"] /\ callTable["pools"] = "handler"
    /\ Len(log) >= 6
    /\ log[1].method = "pools" /\ log[2] = EvHandler("pools")
    /\ log[5].method = "pools" /\ log[6] = EvHandler("pools")
====
